---- MODULE Spec2Model ----
(***************************************************************************)
(* Model of moshi-server's transcript assembly core:                       *)
(*   vad.rs         EnergyVad         (energy-based voice-activity detector)*)
(*   transcript.rs  TranscriptTracker (word folding, dedup, finalize)       *)
(*                                                                         *)
(* Values.  Times are f64 seconds, with the rounding of f64 addition,       *)
(* subtraction and division; infinities, NaN, negative zero and subnormal  *)
(* values do not arise from the inputs used and are not modelled.  Samples *)
(* are the amplitudes 0 and 1, on which the f32 energy of a frame is       *)
(* exact.  Strings are sequences of one-character strings.  Option<T> is a *)
(* sequence of length 0 (None) or 1 (Some).                                *)
(***************************************************************************)
EXTENDS Integers, Sequences, FiniteSets, TLC

VARIABLES
    vad,              \* TranscriptTracker.vad : EnergyVad (cfg, buffer, current_time, ...)
    finalize_after_s, \* TranscriptTracker.finalize_after_s
    buffer,           \* TranscriptTracker.buffer
    start_time,       \* TranscriptTracker.start_time      : Option<f64>
    last_stop_time,   \* TranscriptTracker.last_stop_time  : Option<f64>
    last_emitted,     \* TranscriptTracker.last_emitted    : Option<EmittedState>
    op,               \* the public method called last
    out,              \* what that call returned (Option / Vec as a sequence)
    vad_events,       \* what vad.process returned inside the last ingest_audio
    frames_done,      \* observer: complete frames delivered since new / reset
    silent_run,       \* observer: below-threshold frames since the last voiced one (-1: none yet)
    expected_events,  \* observer: the speech-ended events the delivered frames call for
    mode              \* the session: "calls" (any method, in any order) or "silence"
                      \* (nothing but below-threshold audio from here on)

vars == <<vad, finalize_after_s, buffer, start_time, last_stop_time, last_emitted,
          op, out, vad_events, frames_done, silent_run, expected_events, mode>>

-----------------------------------------------------------------------------
(* Bounds of the exploration *)

MaxFrames == 4      \* frames the VAD clock may count before audio stops being delivered
MaxBatch == 3       \* samples in one ingest_audio batch
MaxResidual == 1    \* samples the VAD's queue may hold between calls
MaxBuf == 3         \* characters in the text buffer
MaxSilence == 3     \* frames of closing silence delivered beyond MaxFrames

-----------------------------------------------------------------------------
(* Option<T> *)

None == <<>>
Some(x) == <<x>>
IsSome(o) == o # <<>>
Unwrap(o) == o[1]
\* Option::or
OptionOr(a, b) == IF IsSome(a) THEN a ELSE b
\* an insert that overwrites what is there
insert_always(o, x) == Some(x)
\* Option::get_or_insert, as the option it leaves
get_or_insert(o, x) == IF IsSome(o) THEN o ELSE Some(x)

-----------------------------------------------------------------------------
(* Natural numbers of any size, for the significands of f64 values: limbs in *)
(* base 2^12, least significant first, no zero limb at the top; <<>> is 0.   *)

LimbBits == 12
Base == 2^LimbBits

RECURSIVE big_from(_)
big_from(n) == IF n = 0 THEN <<>> ELSE <<n % Base>> \o big_from(n \div Base)

RECURSIVE big_strip(_)
big_strip(a) ==
    IF a = <<>> THEN a
    ELSE IF a[Len(a)] = 0 THEN big_strip(SubSeq(a, 1, Len(a) - 1)) ELSE a

RECURSIVE big_add(_, _, _)
big_add(a, b, carry) ==
    IF a = <<>> /\ b = <<>> THEN (IF carry = 0 THEN <<>> ELSE <<carry>>)
    ELSE LET x == (IF a = <<>> THEN 0 ELSE Head(a))
                  + (IF b = <<>> THEN 0 ELSE Head(b)) + carry
         IN  <<x % Base>> \o big_add(IF a = <<>> THEN a ELSE Tail(a),
                                     IF b = <<>> THEN b ELSE Tail(b), x \div Base)

\* a - b - borrow for a >= b + borrow, before the top zero limbs are stripped
RECURSIVE big_sub_limbs(_, _, _)
big_sub_limbs(a, b, borrow) ==
    IF a = <<>> THEN <<>>
    ELSE LET x == Head(a) - (IF b = <<>> THEN 0 ELSE Head(b)) - borrow
         IN  <<(x + Base) % Base>>
             \o big_sub_limbs(Tail(a), IF b = <<>> THEN b ELSE Tail(b),
                              IF x < 0 THEN 1 ELSE 0)

big_sub(a, b) == big_strip(big_sub_limbs(a, b, 0))

\* -1, 0 or 1 as a is below, equal to or above b
RECURSIVE big_cmp(_, _)
big_cmp(a, b) ==
    IF Len(a) # Len(b) THEN (IF Len(a) < Len(b) THEN -1 ELSE 1)
    ELSE IF a = <<>> THEN 0
    ELSE IF a[Len(a)] # b[Len(b)] THEN (IF a[Len(a)] < b[Len(b)] THEN -1 ELSE 1)
    ELSE big_cmp(SubSeq(a, 1, Len(a) - 1), SubSeq(b, 1, Len(b) - 1))

\* a * c + carry for c <= 2^19
RECURSIVE big_mul_small(_, _, _)
big_mul_small(a, c, carry) ==
    IF a = <<>> THEN big_from(carry)
    ELSE LET x == Head(a) * c + carry
         IN  <<x % Base>> \o big_mul_small(Tail(a), c, x \div Base)

RECURSIVE big_mul(_, _)
big_mul(a, b) ==
    IF a = <<>> \/ b = <<>> THEN <<>>
    ELSE big_add(big_mul_small(a, Head(b), 0),
                 IF Tail(b) = <<>> THEN <<>> ELSE <<0>> \o big_mul(a, Tail(b)), 0)

\* quotient (top zero limbs not stripped) and remainder of a by d, 0 < d < 2^19
RECURSIVE big_div_small(_, _)
big_div_small(a, d) ==
    IF a = <<>> THEN [q |-> <<>>, r |-> 0]
    ELSE LET hi == big_div_small(Tail(a), d)
             cur == hi.r * Base + Head(a)
         IN  [q |-> <<cur \div d>> \o hi.q, r |-> cur % d]

\* a * 2^k
big_shl(a, k) ==
    IF a = <<>> \/ k = 0 THEN a
    ELSE [i \in 1..(k \div LimbBits) |-> 0] \o big_mul_small(a, 2^(k % LimbBits), 0)

\* a \div 2^k
big_shr(a, k) ==
    IF k = 0 THEN a
    ELSE IF Len(a) <= k \div LimbBits THEN <<>>
    ELSE big_strip(big_div_small(SubSeq(a, k \div LimbBits + 1, Len(a)),
                                 2^(k % LimbBits)).q)

\* the number of binary digits of n
RECURSIVE bits(_)
bits(n) == IF n = 0 THEN 0 ELSE 1 + bits(n \div 2)

big_bits(a) == IF a = <<>> THEN 0 ELSE LimbBits * (Len(a) - 1) + bits(a[Len(a)])

\* the number of zero binary digits at the low end of n > 0
RECURSIVE low_zeros(_)
low_zeros(n) == IF n % 2 = 1 THEN 0 ELSE 1 + low_zeros(n \div 2)

RECURSIVE big_low_zeros(_)
big_low_zeros(a) ==
    IF Head(a) = 0 THEN LimbBits + big_low_zeros(Tail(a)) ELSE low_zeros(Head(a))

-----------------------------------------------------------------------------
(* f64.  A finite value is (-1)^neg * m * 2^e with m odd, or zero (m = <<>>, *)
(* e = 0, neg = FALSE), so that equal values are equal records.  Results are *)
(* rounded to 53 significant bits, to nearest, ties to even.                 *)

F64Bits == 53

f64_zero == [neg |-> FALSE, m |-> <<>>, e |-> 0]

\* the value a * 2^e, which needs no rounding, in the form above
f64_exact(neg, a, e) ==
    IF a = <<>> THEN f64_zero
    ELSE LET t == big_low_zeros(a)
         IN  [neg |-> neg, m |-> big_shr(a, t), e |-> e + t]

\* a, cut to q = a \div 2^k, rounds away from zero: what is cut off is more
\* than half a unit of q (cmp > 0), or just half (cmp = 0) with q odd
rounds_up(q, cmp) == cmp > 0 \/ (cmp = 0 /\ Head(q) % 2 = 1)

\* the f64 nearest to a * 2^e, where a has k bits too many and q = a \div 2^k
round_to(neg, a, e, k, q) ==
    f64_exact(neg,
              IF rounds_up(q, big_cmp(big_sub(a, big_shl(q, k)), big_shl(<<1>>, k - 1)))
              THEN big_add(q, <<>>, 1) ELSE q,
              e + k)

\* the f64 nearest to a * 2^e, where a has k bits too many (none if k <= 0)
round_off(neg, a, e, k) ==
    IF k <= 0 THEN f64_exact(neg, a, e) ELSE round_to(neg, a, e, k, big_shr(a, k))

\* the f64 nearest to a * 2^e
f64_round(neg, a, e) ==
    IF Len(a) * LimbBits <= F64Bits THEN f64_exact(neg, a, e)
    ELSE round_off(neg, a, e, big_bits(a) - F64Bits)

\* usize as f64
f64_from(n) == f64_exact(FALSE, big_from(n), 0)

f64_neg(x) == IF x.m = <<>> THEN x ELSE [x EXCEPT !.neg = ~x.neg]

\* -1, 0 or 1 as |x| is below, equal to or above |y|
\* the same for |x| and |y| not zero, whose top bits are at top_x and top_y
cmp_tops(x, y, top_x, top_y) ==
    IF top_x # top_y THEN (IF top_x < top_y THEN -1 ELSE 1)
    ELSE IF x.e <= y.e THEN big_cmp(x.m, big_shl(y.m, y.e - x.e))
    ELSE big_cmp(big_shl(x.m, x.e - y.e), y.m)

f64_cmp_abs(x, y) ==
    IF x.m = y.m /\ x.e = y.e THEN 0
    ELSE IF x.m = <<>> \/ y.m = <<>> THEN (IF x.m = <<>> THEN -1 ELSE 1)
    ELSE cmp_tops(x, y, big_bits(x.m) + x.e, big_bits(y.m) + y.e)

\* -1, 0 or 1 as x is below, equal to or above y
f64_cmp(x, y) ==
    IF x.neg # y.neg THEN (IF x.neg THEN -1 ELSE 1)
    ELSE (IF x.neg THEN -1 ELSE 1) * f64_cmp_abs(x, y)

f64_lt(x, y) == f64_cmp(x, y) < 0
f64_le(x, y) == f64_cmp(x, y) <= 0
f64_gt(x, y) == f64_cmp(x, y) > 0
f64_ge(x, y) == f64_cmp(x, y) >= 0

\* (-1)^x_neg * a * 2^e + (-1)^y_neg * b * 2^e, where cmp compares a with b
add_aligned(x_neg, a, y_neg, b, e, cmp) ==
    f64_round(IF cmp >= 0 THEN x_neg ELSE y_neg,
              IF x_neg = y_neg THEN big_add(a, b, 0)
              ELSE IF cmp >= 0 THEN big_sub(a, b) ELSE big_sub(b, a),
              e)

\* the same, for significands a and b of one exponent e
add_at(x_neg, a, y_neg, b, e) == add_aligned(x_neg, a, y_neg, b, e, big_cmp(a, b))

\* x + y
f64_add(x, y) ==
    IF x.m = <<>> THEN y
    ELSE IF y.m = <<>> THEN x
    ELSE IF x.e <= y.e THEN add_at(x.neg, x.m, y.neg, big_shl(y.m, y.e - x.e), x.e)
    ELSE add_at(x.neg, big_shl(x.m, x.e - y.e), y.neg, y.m, y.e)

\* x - y
f64_sub(x, y) == f64_add(x, f64_neg(y))

\* x * y
f64_mul(x, y) == f64_round(x.neg # y.neg, big_mul(x.m, y.m), x.e + y.e)

\* the f64 nearest to a quotient of exponent e, given as q and r, the quotient
\* and the remainder of a long division: twice the quotient, plus one when
\* there is a remainder, rounds as the quotient itself does
round_quotient(neg, qr, e) ==
    f64_round(neg,
              big_add(big_shl(big_strip(qr.q), 1), <<>>, IF qr.r = 0 THEN 0 ELSE 1),
              e - 1)

\* x / y where d is the significand of y and x.m is carried k bits further
div_to(x, y, d, k) ==
    round_quotient(x.neg # y.neg, big_div_small(big_shl(x.m, k), d), x.e - y.e - k)

\* x / y where d is the significand of y
div_by(x, y, d) == div_to(x, y, d, F64Bits + 3 + bits(d))

\* x / y for y # 0 whose odd part is below 2^19 (every usize below 2^19 is);
\* by a power of two the quotient needs no rounding
f64_div(x, y) ==
    IF x.m = <<>> THEN f64_zero
    ELSE IF y.m = <<1>> THEN [neg |-> x.neg # y.neg, m |-> x.m, e |-> x.e - y.e]
    ELSE div_by(x, y, IF Len(y.m) = 1 THEN y.m[1] ELSE y.m[1] + Base * y.m[2])

-----------------------------------------------------------------------------
(* Characters and strings *)

Chars == {"a", ",", " "}
\* char::is_whitespace
is_whitespace(c) == c = " "
\* char::is_alphanumeric
is_alphanumeric(c) == c = "a"

RECURSIVE trim_start(_)
trim_start(s) ==
    IF s = <<>> THEN s
    ELSE IF is_whitespace(Head(s)) THEN trim_start(Tail(s)) ELSE s

RECURSIVE trim_end(_)
trim_end(s) ==
    IF s = <<>> THEN s
    ELSE IF is_whitespace(s[Len(s)]) THEN trim_end(SubSeq(s, 1, Len(s) - 1)) ELSE s

\* a trim that strips nothing
trim_identity(s) == s

\* str::trim
trim(s) == trim_end(trim_start(s))

\* chars().rev().find(|c| !c.is_whitespace())
RECURSIVE rfind_non_whitespace(_)
rfind_non_whitespace(s) ==
    IF s = <<>> THEN None
    ELSE IF ~is_whitespace(s[Len(s)]) THEN Some(s[Len(s)])
    ELSE rfind_non_whitespace(SubSeq(s, 1, Len(s) - 1))

\* chars().find(|c| !c.is_whitespace())
RECURSIVE find_non_whitespace(_)
find_non_whitespace(s) ==
    IF s = <<>> THEN None
    ELSE IF ~is_whitespace(Head(s)) THEN Some(Head(s))
    ELSE find_non_whitespace(Tail(s))

-----------------------------------------------------------------------------
(* Inputs *)

SeqsUpTo(S, n) == UNION {[1..k -> S] : k \in 0..n}

\* sample amplitudes: silence and a tone
Samples == {0, 1}
Batches == SeqsUpTo(Samples, MaxBatch)

\* word events: empty, blank, a letter, a punctuation mark, a padded letter
Words == {<<>>, <<" ">>, <<"a">>, <<",">>, <<" ", "a", " ">>}

\* the f64 literal n.0
Secs(n) == f64_from(n)

\* timestamps of word events and of end-of-word events: before every VAD
\* instant, and among them
StartTimes == {Secs(0), Secs(3)}
StopTimes == {Secs(0), Secs(4)}

\* VadConfig values.  energy_threshold is in squared-amplitude units.
\* 2 s frames of two samples; silence is confirmed by the second silent frame
VadCoarse == [sample_rate |-> 1, frame_length |-> 2, energy_threshold |-> 1,
              min_silence_duration |-> Secs(3)]
\* 1 s frames of one sample
VadFine == [sample_rate |-> 1, frame_length |-> 1, energy_threshold |-> 1,
            min_silence_duration |-> Secs(2)]
\* frames of a third of a second, which is no f64: silence is confirmed by the
\* first silent frame
VadThirds == [sample_rate |-> 3, frame_length |-> 1, energy_threshold |-> 1,
              min_silence_duration |-> f64_div(Secs(1), Secs(3))]
\* the same frames, with silence confirmed after 2 s, which is six of them
VadThirdsSlow == [sample_rate |-> 3, frame_length |-> 1, energy_threshold |-> 1,
                  min_silence_duration |-> Secs(2)]
\* the two disabled configurations
VadNoRate == [sample_rate |-> 0, frame_length |-> 2, energy_threshold |-> 1,
              min_silence_duration |-> Secs(3)]
VadNoFrame == [sample_rate |-> 1, frame_length |-> 0, energy_threshold |-> 1,
               min_silence_duration |-> Secs(3)]

\* TrackerConfig values: a timer longer than the VAD's hysteresis (as in the
\* defaults, 0.8 s against 0.6 s), one shorter, and one of a single frame of a
\* third of a second
TrackerConfigs ==
    { [vad |-> VadCoarse, finalize_after_s |-> Secs(5)],
      [vad |-> VadFine, finalize_after_s |-> Secs(1)],
      [vad |-> VadThirds, finalize_after_s |-> f64_div(Secs(1), Secs(3))],
      [vad |-> VadNoRate, finalize_after_s |-> Secs(5)],
      [vad |-> VadNoFrame, finalize_after_s |-> Secs(5)] }

\* one more for the VAD on its own, where the audio runs longer
VadOnlyConfigs == { [vad |-> VadThirdsSlow, finalize_after_s |-> Secs(5)] }

-----------------------------------------------------------------------------
(* vad.rs : EnergyVad *)

\* EnergyVad::new
vad_new(cfg) ==
    [cfg |-> cfg, buffer |-> <<>>, current_time |-> f64_zero, in_speech |-> FALSE,
     silence_accumulator |-> f64_zero, last_voice_time |-> f64_zero]

\* EnergyVad::reset
vad_reset(v) ==
    [v EXCEPT !.buffer = <<>>, !.current_time = f64_zero, !.in_speech = FALSE,
              !.silence_accumulator = f64_zero, !.last_voice_time = f64_zero]

\* the disabled-configuration test of process
vad_disabled(cfg) == cfg.frame_length = 0 \/ cfg.sample_rate = 0

\* frame_len as f64 / sample_rate as f64
frame_duration(cfg) == f64_div(f64_from(cfg.frame_length), f64_from(cfg.sample_rate))

\* the inner for loop of process: the sum of the squares of a frame's samples
RECURSIVE sum_squares(_)
sum_squares(frame) ==
    IF frame = <<>> THEN 0 ELSE Head(frame) * Head(frame) + sum_squares(Tail(frame))

\* energy /= frame_len; energy >= threshold.  The division is carried to the
\* other side of the comparison (frame_len > 0 here).
is_voiced(frame, cfg) ==
    sum_squares(frame) >= cfg.energy_threshold * cfg.frame_length

\* the branch of process taken by a frame at or above the threshold
enter_speech(v, next_time) ==
    [v EXCEPT !.in_speech = TRUE, !.silence_accumulator = f64_zero,
              !.last_voice_time = next_time]

\* the branch of process taken by a frame below the threshold while in speech;
\* acc is silence_accumulator after its += frame_duration
silent_frame(v, events, acc) ==
    IF f64_ge(acc, v.cfg.min_silence_duration)
    THEN [vad |-> [v EXCEPT !.in_speech = FALSE, !.silence_accumulator = f64_zero],
          events |-> Append(events, [end_time |-> v.last_voice_time])]
    ELSE [vad |-> [v EXCEPT !.silence_accumulator = acc], events |-> events]

\* the frame drained from the front of the buffer, and current_time = next_time
\* at the bottom of the loop
advance(r, next_time) ==
    [r EXCEPT !.vad.buffer = SubSeq(@, r.vad.cfg.frame_length + 1, Len(@)),
              !.vad.current_time = next_time]

\* one iteration of the while loop of process, for next_time worked out
frame_until(v, events, duration, next_time) ==
    advance(IF is_voiced(SubSeq(v.buffer, 1, v.cfg.frame_length), v.cfg)
            THEN [vad |-> enter_speech(v, next_time), events |-> events]
            ELSE IF v.in_speech
            THEN silent_frame(v, events, f64_add(v.silence_accumulator, duration))
            ELSE [vad |-> v, events |-> events],
            next_time)

\* one iteration of the while loop of process, with the frame duration that
\* process worked out before the loop
process_frame(v, events, duration) ==
    frame_until(v, events, duration, f64_add(v.current_time, duration))

\* the while loop of process; r holds the detector and the events so far
RECURSIVE process_loop(_, _)
process_loop(r, duration) ==
    IF Len(r.vad.buffer) >= r.vad.cfg.frame_length
    THEN process_loop(process_frame(r.vad, r.events, duration), duration)
    ELSE r

\* process from extend_from_slice on, the samples being in the buffer of v
process_buffered(v) ==
    IF vad_disabled(v.cfg) THEN [vad |-> v, events |-> <<>>]
    ELSE process_loop([vad |-> v, events |-> <<>>], frame_duration(v.cfg))

\* a process that throws away the samples left over after the last whole frame
process_dropping_residual(v, pcm) ==
    IF pcm = <<>> THEN [vad |-> v, events |-> <<>>]
    ELSE IF vad_disabled(v.cfg)
    THEN [vad |-> [v EXCEPT !.buffer = v.buffer \o pcm], events |-> <<>>]
    ELSE [process_buffered([v EXCEPT !.buffer = v.buffer \o pcm])
             EXCEPT !.vad.buffer = <<>>]

\* EnergyVad::process
process(v, pcm) ==
    IF pcm = <<>> THEN [vad |-> v, events |-> <<>>]
    ELSE process_buffered([v EXCEPT !.buffer = v.buffer \o pcm])

-----------------------------------------------------------------------------
(* transcript.rs : TranscriptTracker.  A tracker value is the record Self.  *)

\* TranscriptTracker::new
new(cfg) ==
    [vad |-> vad_new(cfg.vad), finalize_after_s |-> cfg.finalize_after_s,
     buffer |-> <<>>, start_time |-> None, last_stop_time |-> None,
     last_emitted |-> None]

\* a segment reset that clears nothing
keep_segment_state(self) == self

\* a segment reset that reaches into the VAD
reset_segment_and_vad(self) ==
    [self EXCEPT !.buffer = <<>>, !.start_time = None, !.last_stop_time = None,
                 !.last_emitted = None, !.vad = vad_reset(self.vad)]

\* TranscriptTracker::reset_segment_state
reset_segment_state(self) ==
    [self EXCEPT !.buffer = <<>>, !.start_time = None, !.last_stop_time = None,
                 !.last_emitted = None]

\* a session reset that forgets the VAD
reset_segment_only(self) == reset_segment_state(self)

\* TranscriptTracker::reset
reset(self) ==
    [reset_segment_state(self) EXCEPT !.vad = vad_reset(self.vad)]

\* no deduplication
should_emit_always(self, update) == TRUE

\* a deduplication that compares the stop time and the kind, not the text
should_emit_by_stop_time(self, update) ==
    IF IsSome(self.last_emitted)
    THEN LET prev == Unwrap(self.last_emitted)
         IN  \/ prev.stop_time # update.stop_time
             \/ prev.is_final # update.is_final
    ELSE TRUE

\* TranscriptTracker::should_emit
should_emit(self, update) ==
    IF IsSome(self.last_emitted)
    THEN LET prev == Unwrap(self.last_emitted)
         IN  \/ prev.text # update.text
             \/ prev.stop_time # update.stop_time
             \/ prev.is_final # update.is_final
    ELSE TRUE

\* TranscriptTracker::emit_partial
emit_partial(self) ==
    IF ~IsSome(self.start_time) THEN [self |-> self, ret |-> None]
    ELSE LET text == trim(self.buffer)
             stop_time == self.last_stop_time
             update == [text |-> text, start_time |-> Unwrap(self.start_time),
                        stop_time |-> stop_time, is_final |-> FALSE]
         IN  IF text = <<>> THEN [self |-> self, ret |-> None]
             ELSE IF should_emit(self, update)
             THEN [self |-> [self EXCEPT !.last_emitted =
                                Some([text |-> text, stop_time |-> stop_time,
                                      is_final |-> FALSE])],
                   ret |-> Some(update)]
             ELSE [self |-> self, ret |-> None]

\* no clamp
clamp_stop_never(stop_time, start) == stop_time

\* the clamp of finalize: a stop time earlier than the start becomes the start
clamp_stop(stop_time, start) ==
    IF IsSome(stop_time) /\ f64_lt(Unwrap(stop_time), start) THEN Some(start)
    ELSE stop_time

\* TranscriptTracker::finalize
finalize(self, fallback_stop) ==
    IF ~IsSome(self.start_time) THEN [self |-> self, ret |-> None]
    ELSE LET start == Unwrap(self.start_time)
             text == trim(self.buffer)
         IN  IF text = <<>> THEN [self |-> reset_segment_state(self), ret |-> None]
             ELSE LET stop_time == clamp_stop(OptionOr(self.last_stop_time, fallback_stop),
                                              start)
                      update == [text |-> text, start_time |-> start,
                                 stop_time |-> stop_time, is_final |-> TRUE]
                  IN  [self |-> reset_segment_state(self), ret |-> Some(update)]

\* a timer that reads the silence off the VAD's accumulator, not off its clock
should_finalize_by_accumulator(self) ==
    IF self.buffer = <<>> THEN FALSE
    ELSE IF self.vad.in_speech THEN FALSE
    ELSE IF f64_le(self.vad.last_voice_time, f64_zero) THEN FALSE
    ELSE f64_ge(self.vad.silence_accumulator, self.finalize_after_s)

\* a timer that does not ask whether the VAD is in speech
should_finalize_ignoring_speech(self) ==
    IF self.buffer = <<>> THEN FALSE
    ELSE IF f64_le(self.vad.last_voice_time, f64_zero) THEN FALSE
    ELSE f64_ge(f64_sub(self.vad.current_time, self.vad.last_voice_time),
                self.finalize_after_s)

\* TranscriptTracker::should_finalize_by_timer
should_finalize_by_timer(self) ==
    IF self.buffer = <<>> THEN FALSE
    ELSE IF self.vad.in_speech THEN FALSE
    ELSE IF f64_le(self.vad.last_voice_time, f64_zero) THEN FALSE
    ELSE f64_ge(f64_sub(self.vad.current_time, self.vad.last_voice_time),
                self.finalize_after_s)

\* what ingest_audio returns: the tracker, the updates pushed to out, and the
\* events of vad.process (dropped by the code, kept here to be observed)
ingested(f, events) == [self |-> f.self, ret |-> f.ret, events |-> events]

\* the tracker after let _ = self.vad.process(pcm), p being what process gave
after_process(self, p) == [self |-> [self EXCEPT !.vad = p.vad], events |-> p.events]

\* the if of an ingest_audio that returns a snapshot of the open segment while
\* the timer is not due; s is the tracker, with the events, after process
poll_with_snapshot(s) ==
    IF should_finalize_by_timer(s.self)
    THEN ingested(finalize(s.self, Some(s.self.vad.last_voice_time)), s.events)
    ELSE IF IsSome(s.self.start_time)
    THEN [self |-> s.self, events |-> s.events,
          ret |-> Some([text |-> trim(s.self.buffer),
                        start_time |-> Unwrap(s.self.start_time),
                        stop_time |-> s.self.last_stop_time,
                        is_final |-> FALSE])]
    ELSE [self |-> s.self, ret |-> <<>>, events |-> s.events]

\* the if of ingest_audio: the timer is asked once, after process, and a final
\* that finalize returns is pushed to out; s is the tracker, with the events,
\* after process
poll_timer(s) ==
    IF should_finalize_by_timer(s.self)
    THEN ingested(finalize(s.self, Some(s.self.vad.last_voice_time)), s.events)
    ELSE [self |-> s.self, ret |-> <<>>, events |-> s.events]

\* an ingest_audio that returns a snapshot of the open segment while the timer
\* is not due
ingest_audio_with_snapshot(self, pcm) ==
    poll_with_snapshot(after_process(self, process(self.vad, pcm)))

\* TranscriptTracker::ingest_audio
ingest_audio(self, pcm) == poll_timer(after_process(self, process(self.vad, pcm)))

\* a separator test that looks at the buffer only
needs_separator_after_word(buf, piece) ==
    LET prev_char == rfind_non_whitespace(buf)
    IN  IF IsSome(prev_char) THEN is_alphanumeric(Unwrap(prev_char)) ELSE FALSE

\* the separator test of handle_word
needs_separator(buf, piece) ==
    LET prev_char == rfind_non_whitespace(buf)
        next_char == find_non_whitespace(piece)
    IN  /\ (IF IsSome(prev_char) THEN is_alphanumeric(Unwrap(prev_char)) ELSE FALSE)
        /\ (IF IsSome(next_char) THEN is_alphanumeric(Unwrap(next_char)) ELSE FALSE)

\* a handle_word that takes the word as it came, blank or not
handle_word_keeping_blank(self, word, t) ==
    LET b1 == IF self.buffer # <<>> /\ needs_separator(self.buffer, word)
              THEN Append(self.buffer, " ") ELSE self.buffer
        s1 == [self EXCEPT !.buffer = b1 \o word,
                           !.start_time = get_or_insert(@, t)]
    IN  emit_partial(s1)

\* TranscriptTracker::handle_word
handle_word(self, word, t) ==
    LET piece == trim(word)
    IN  IF piece = <<>> THEN [self |-> self, ret |-> None]
        ELSE LET b1 == IF self.buffer # <<>> /\ needs_separator(self.buffer, piece)
                       THEN Append(self.buffer, " ") ELSE self.buffer
                 s1 == [self EXCEPT !.buffer = b1 \o piece,
                                    !.start_time = get_or_insert(@, t)]
             IN  emit_partial(s1)

\* TranscriptTracker::handle_end_word
handle_end_word(self, t) ==
    emit_partial([self EXCEPT !.last_stop_time = Some(t)])

\* a fallback chain that tries the clock before the last voiced instant
force_fallback_clock_first(self) ==
    IF IsSome(self.last_stop_time) THEN self.last_stop_time
    ELSE IF f64_gt(self.vad.current_time, f64_zero) THEN Some(self.vad.current_time)
    ELSE IF f64_gt(self.vad.last_voice_time, f64_zero)
    THEN Some(self.vad.last_voice_time)
    ELSE None

\* the fallback chain of force_finalize
force_fallback(self) ==
    IF IsSome(self.last_stop_time) THEN self.last_stop_time
    ELSE IF f64_gt(self.vad.last_voice_time, f64_zero)
    THEN Some(self.vad.last_voice_time)
    ELSE IF f64_gt(self.vad.current_time, f64_zero) THEN Some(self.vad.current_time)
    ELSE None

\* TranscriptTracker::force_finalize
force_finalize(self) == finalize(self, force_fallback(self))

-----------------------------------------------------------------------------
(* Observers of the audio delivered, computed from the samples alone *)

\* the complete frames of a sample queue, each classified voiced (TRUE) or not
RECURSIVE frame_classes(_, _)
frame_classes(q, cfg) ==
    IF Len(q) < cfg.frame_length THEN <<>>
    ELSE <<is_voiced(SubSeq(q, 1, cfg.frame_length), cfg)>>
         \o frame_classes(SubSeq(q, cfg.frame_length + 1, Len(q)), cfg)

\* the number of frames process(pcm) takes off the queue
frames_taken(v, pcm) ==
    IF pcm = <<>> \/ vad_disabled(v.cfg) THEN 0
    ELSE (Len(v.buffer) + Len(pcm)) \div v.cfg.frame_length

\* the frames one process call completes
delivered(v, pcm) ==
    IF pcm = <<>> \/ vad_disabled(v.cfg) THEN <<>>
    ELSE frame_classes(v.buffer \o pcm, v.cfg)

\* below-threshold frames since the last voiced frame, after the i-th frame of
\* cls, when run0 was the count before cls (-1: no voiced frame so far)
run_at(run0, cls, i) ==
    LET voiced == {j \in 1..i : cls[j]}
    IN  IF voiced # {} THEN i - (CHOOSE j \in voiced : \A k \in voiced : k <= j)
        ELSE IF run0 = -1 THEN -1 ELSE run0 + i

\* n times the frame duration, as an f64 product
frames_time(n, cfg) == f64_mul(f64_from(n), frame_duration(cfg))

\* the instant at which the n-th frame ends, n * frame_length / sample_rate
\* seconds, as the nearest f64
frames_end(n, cfg) == f64_div(f64_from(n * cfg.frame_length), f64_from(cfg.sample_rate))

\* n frames last at least limit seconds: n * frame_length / sample_rate >= limit,
\* compared without rounding as n * frame_length >= limit * sample_rate
frames_last(n, cfg, limit) ==
    f64_ge(f64_from(n * cfg.frame_length),
           f64_exact(limit.neg, big_mul_small(limit.m, cfg.sample_rate, 0), limit.e))

\* the silent run first reaches min_silence_duration at the i-th frame of cls
event_frame(run0, cls, cfg, i) ==
    LET r == run_at(run0, cls, i)
    IN  /\ r >= 1
        /\ frames_last(r, cfg, cfg.min_silence_duration)
        /\ ~frames_last(r - 1, cfg, cfg.min_silence_duration)

\* one event per such frame, in order, carrying the end of the last voiced frame
RECURSIVE events_from(_, _, _, _, _)
events_from(i, run0, n0, cls, cfg) ==
    IF i > Len(cls) THEN <<>>
    ELSE (IF event_frame(run0, cls, cfg, i)
          THEN <<[end_time |-> frames_end(n0 + i - run_at(run0, cls, i), cfg)]>>
          ELSE <<>>)
         \o events_from(i + 1, run0, n0, cls, cfg)

-----------------------------------------------------------------------------
(* The state machine: one tracker, called by one session *)

Self ==
    [vad |-> vad, finalize_after_s |-> finalize_after_s, buffer |-> buffer,
     start_time |-> start_time, last_stop_time |-> last_stop_time,
     last_emitted |-> last_emitted]

\* the tracker is in state self
Is(self) ==
    /\ vad = self.vad
    /\ finalize_after_s = self.finalize_after_s
    /\ buffer = self.buffer
    /\ start_time = self.start_time
    /\ last_stop_time = self.last_stop_time
    /\ last_emitted = self.last_emitted

\* the call leaves the tracker in state self
Becomes(self) ==
    /\ vad' = self.vad
    /\ finalize_after_s' = self.finalize_after_s
    /\ buffer' = self.buffer
    /\ start_time' = self.start_time
    /\ last_stop_time' = self.last_stop_time
    /\ last_emitted' = self.last_emitted

\* a call that delivers no audio
NoAudio ==
    /\ vad_events' = <<>>
    /\ expected_events' = <<>>
    /\ UNCHANGED <<frames_done, silent_run, mode>>

\* a tracker newly constructed with one of the configurations cfgs
InitFrom(cfgs) ==
    \E cfg \in cfgs :
        /\ Is(new(cfg))
        /\ op = "new"
        /\ out = <<>>
        /\ vad_events = <<>>
        /\ frames_done = 0
        /\ silent_run = -1
        /\ expected_events = <<>>
        /\ mode = "calls"

Init == InitFrom(TrackerConfigs)

\* with pcm the audio delivered fits the bounds: at most max_frames frames
WithinAudioBounds(pcm, max_frames) ==
    /\ Len(pcm) - frames_taken(vad, pcm) * vad.cfg.frame_length + Len(vad.buffer)
           <= MaxResidual
    /\ frames_done + Len(delivered(vad, pcm)) <= max_frames

\* the state after an ingest_audio call that gave r, on frames of classes cls
Ingested(r, cls) ==
    /\ Becomes(r.self)
    /\ op' = "ingest_audio"
    /\ out' = r.ret
    /\ vad_events' = r.events
    /\ frames_done' = frames_done + Len(cls)
    /\ silent_run' = run_at(silent_run, cls, Len(cls))
    /\ expected_events' = events_from(1, silent_run, frames_done, cls, vad.cfg)
    /\ UNCHANGED mode

\* one ingest_audio(pcm) call
Ingest(pcm, max_frames) ==
    /\ WithinAudioBounds(pcm, max_frames)
    /\ Ingested(ingest_audio(Self, pcm), delivered(vad, pcm))

IngestAudio == \E pcm \in Batches : Ingest(pcm, MaxFrames)

\* one handle_word(word, t) call
Word(word, t) ==
    LET r == handle_word(Self, word, t)
    IN  /\ Len(r.self.buffer) <= MaxBuf
        /\ Becomes(r.self)
        /\ op' = "handle_word"
        /\ out' = r.ret
        /\ NoAudio

HandleWord == \E word \in Words, t \in StartTimes : Word(word, t)

HandleEndWord ==
    \E t \in StopTimes :
        LET r == handle_end_word(Self, t)
        IN  /\ Becomes(r.self)
            /\ op' = "handle_end_word"
            /\ out' = r.ret
            /\ NoAudio

ForceFinalize ==
    LET r == force_finalize(Self)
    IN  /\ Becomes(r.self)
        /\ op' = "force_finalize"
        /\ out' = r.ret
        /\ NoAudio

Reset ==
    /\ Becomes(reset(Self))
    /\ op' = "reset"
    /\ out' = <<>>
    /\ vad_events' = <<>>
    /\ expected_events' = <<>>
    /\ frames_done' = 0
    /\ silent_run' = -1
    /\ UNCHANGED mode

Next == IngestAudio \/ HandleWord \/ HandleEndWord \/ ForceFinalize \/ Reset

Spec == Init /\ [][Next]_vars

-----------------------------------------------------------------------------
(* A session that ends in silence: calls on a tracker whose VAD can process  *)
(* audio, then nothing but non-empty batches of below-threshold samples for  *)
(* as long as a segment is open.  The audio source keeps delivering, which   *)
(* is the fairness of SilentSample.  What the timer reads is the VAD and     *)
(* whether there is text, so the calls before the silence are every audio    *)
(* batch, one word at either start time, force_finalize and reset.           *)

SilentBatches == {pcm \in Batches : pcm # <<>> /\ \A k \in 1..Len(pcm) : pcm[k] = 0}

SilenceInit == Init /\ ~vad_disabled(vad.cfg)

SomeAudio == mode = "calls" /\ IngestAudio

SomeWord == mode = "calls" /\ \E t \in StartTimes : Word(<<"a">>, t)

SomeFinalize == mode = "calls" /\ ForceFinalize

SomeReset == mode = "calls" /\ Reset

BeginSilence ==
    /\ mode = "calls"
    /\ mode' = "silence"
    /\ UNCHANGED <<vad, finalize_after_s, buffer, start_time, last_stop_time,
                   last_emitted, op, out, vad_events, frames_done, silent_run,
                   expected_events>>

SilentAudio ==
    /\ mode = "silence"
    /\ IsSome(start_time)
    /\ \E pcm \in SilentBatches : Ingest(pcm, MaxFrames + MaxSilence)

SilenceNext ==
    SomeAudio \/ SomeWord \/ SomeFinalize \/ SomeReset \/ BeginSilence \/ SilentAudio

\* a below-threshold sample can be delivered: the silence has begun, a segment
\* is open and the audio has not run out
SilentSampleDue ==
    /\ mode = "silence"
    /\ IsSome(start_time)
    /\ WithinAudioBounds(<<0>>, MaxFrames + MaxSilence)

\* what one below-threshold sample delivered during the silence does to the
\* VAD (ingest_audio hands the batch to the VAD before anything else, and
\* nothing after that touches the VAD)
SilentSample ==
    /\ SilentSampleDue
    /\ vad' = process(vad, <<0>>).vad

\* the audio source does not stall: while a segment is open, silent samples
\* keep reaching the VAD.  This is WF_vad(SilentSample) written out, a sample
\* always changing the VAD (its queue or its clock), so that SilentSample can
\* change it exactly when SilentSampleDue.
SilenceSpec ==
    /\ SilenceInit
    /\ [][SilenceNext]_vars
    /\ ([]<>~SilentSampleDue \/ []<><<SilentSample>>_vad)

-----------------------------------------------------------------------------
(* The VAD on its own: a tracker that is given audio and resets but no       *)
(* words, so that every call is vad.process or vad.reset, on a VAD that can  *)
(* process audio.                                                            *)

VadInit == InitFrom(TrackerConfigs \cup VadOnlyConfigs) /\ ~vad_disabled(vad.cfg)

\* with no segment to follow, the audio may run on for longer
VadAudio == \E pcm \in Batches : Ingest(pcm, MaxFrames + MaxSilence)

VadNext == VadAudio \/ Reset

VadSpec == VadInit /\ [][VadNext]_vars

-----------------------------------------------------------------------------
(* Vocabulary of the properties *)

\* the later of two instants
Max(a, b) == IF f64_ge(a, b) THEN a ELSE b

\* an instant after 0
Positive(x) == f64_gt(x, f64_zero)

\* the segment-scoped fields are all unset
SegmentCleared ==
    /\ buffer = <<>>
    /\ start_time = None
    /\ last_stop_time = None
    /\ last_emitted = None

Finals == {i \in 1..Len(out) : out[i].is_final}
Partials == {i \in 1..Len(out) : ~out[i].is_final}

\* the VAD may process frames
Enabled == ~vad_disabled(vad.cfg)

-----------------------------------------------------------------------------
(* C1.  From every reachable state with an empty text buffer, force_finalize *)
(* and ingest_audio return no update and leave buffer, start_time,           *)
(* last_stop_time and the last-emitted snapshot all unset; in particular a   *)
(* last_stop_time recorded by handle_end_word while Idle is cleared.         *)

C1_FinalizeOnEmptyClears ==
    [][(buffer = <<>> /\ op' \in {"force_finalize", "ingest_audio"})
         => (out' = <<>> /\ SegmentCleared')]_vars

-----------------------------------------------------------------------------
(* C2.  Every final update that carries a stop_time has stop_time >=         *)
(* start_time, and when the resolved stop time (last_stop_time, else the     *)
(* caller's fallback) is earlier than the segment's start_time the emitted   *)
(* stop_time is the start_time exactly.                                      *)

\* the stop time finalize resolves, from the state the call found and the VAD
\* instants at the time finalize runs
ResolvedStop(method, last_voice, clock) ==
    IF IsSome(last_stop_time) THEN last_stop_time
    ELSE IF method = "ingest_audio" THEN Some(last_voice)
    ELSE IF Positive(last_voice) THEN Some(last_voice)
    ELSE IF Positive(clock) THEN Some(clock)
    ELSE None

C2_StopNotBeforeStart ==
    [][\A i \in Finals' :
          LET u == out'[i]
              resolved == ResolvedStop(op', vad'.last_voice_time, vad'.current_time)
          IN  /\ IsSome(u.stop_time) => f64_ge(Unwrap(u.stop_time), u.start_time)
              /\ (IsSome(resolved) /\ f64_lt(Unwrap(resolved), Unwrap(start_time)))
                    => u.stop_time = Some(Unwrap(start_time))]_vars

\* a timer-driven final of a segment that started at 3 s while the last voiced
\* frame ended at 2 s and no end-of-word event could have reported 3 s
C2_Witness ==
    /\ op = "ingest_audio"
    /\ Finals # {}
    /\ out[1].start_time = Secs(3)
    /\ out[1].stop_time = Some(Secs(3))
    /\ vad.last_voice_time = Secs(2)

-----------------------------------------------------------------------------
(* C3.  Partial updates are deduplicated: within an open segment a           *)
(* handle_word / handle_end_word call that leaves the (trimmed text,         *)
(* last_stop_time) pair unchanged returns nothing, and no partial update     *)
(* repeats the text and stop_time of the partial emitted before it in the    *)
(* segment (an unset stop_time differs from a set one).                      *)

C3_PartialsDeduplicated ==
    [][op' \in {"handle_word", "handle_end_word"} =>
         /\ (IsSome(start_time) /\ trim(buffer') = trim(buffer)
               /\ last_stop_time' = last_stop_time)
               => out' = <<>>
         /\ \A i \in Partials' :
               /\ last_emitted' = Some([text |-> out'[i].text,
                                         stop_time |-> out'[i].stop_time,
                                         is_final |-> FALSE])
               /\ IsSome(last_emitted) =>
                     <<out'[i].text, out'[i].stop_time>>
                        # <<Unwrap(last_emitted).text, Unwrap(last_emitted).stop_time>>]_vars

\* a repeated end-of-word event on an open segment was swallowed
C3_Witness ==
    /\ op = "handle_end_word"
    /\ out = <<>>
    /\ IsSome(start_time)
    /\ IsSome(last_stop_time)

-----------------------------------------------------------------------------
(* C4.  No update, partial or final, returned by any entry point has empty   *)
(* text: the text holds a character, and begins and ends with one that is    *)
(* not whitespace.                                                           *)

C4_NoEmptyText ==
    \A i \in 1..Len(out) :
        LET text == out[i].text
        IN  /\ text # <<>>
            /\ ~is_whitespace(text[1])
            /\ ~is_whitespace(text[Len(text)])

\* a final update of two separated words
C4_Witness ==
    /\ Finals # {}
    /\ out[1].text = <<"a", " ", "a">>

-----------------------------------------------------------------------------
(* C5.  Finalizing a segment (force_finalize, or the finalize step of        *)
(* ingest_audio once the VAD has processed the batch) clears buffer,         *)
(* start_time, last_stop_time and the last-emitted snapshot and leaves the   *)
(* VAD as it was (after the batch, for ingest_audio); handle_word and        *)
(* handle_end_word leave the VAD unchanged; only ingest_audio and reset      *)
(* change the VAD.                                                           *)

C5_FinalizeLeavesVad ==
    [][/\ op' \in {"handle_word", "handle_end_word", "force_finalize"} => vad' = vad
       /\ (op' = "ingest_audio" /\ Finals' # {})
             => \E pcm \in Batches : vad' = process(vad, pcm).vad
       /\ (op' \in {"force_finalize", "ingest_audio"} /\ Finals' # {})
             => SegmentCleared'
       /\ vad' # vad => op' \in {"ingest_audio", "reset"}]_vars

\* a segment was force-finalized in the middle of speech, and the VAD's clock
\* and speech state are still there
C5_Witness ==
    /\ op = "force_finalize"
    /\ Finals # {}
    /\ SegmentCleared
    /\ vad.in_speech
    /\ Positive(vad.silence_accumulator)
    /\ vad.buffer # <<>>

-----------------------------------------------------------------------------
(* C6.  ingest_audio returns a final update if and only if, in the state     *)
(* after the VAD processed the whole batch, the buffer is non-empty, the VAD *)
(* is not in speech, last_voice_time > 0 and current_time - last_voice_time  *)
(* >= finalize_after_s; the update is the only one returned and its          *)
(* stop_time is last_stop_time if set, else the VAD's last_voice_time,       *)
(* clamped up to start_time.                                                 *)

\* the silence timer as the claim words it: the text buffer the call found,
\* the VAD the batch left
TimerDue ==
    /\ buffer # <<>>
    /\ ~vad'.in_speech
    /\ Positive(vad'.last_voice_time)
    /\ f64_ge(f64_sub(vad'.current_time, vad'.last_voice_time), finalize_after_s)

C6_TimerFinalize ==
    [][op' = "ingest_audio" =>
         /\ out' # <<>> <=> TimerDue
         /\ TimerDue =>
               /\ Len(out') = 1
               /\ out'[1].is_final
               /\ out'[1].stop_time =
                     Some(Max(IF IsSome(last_stop_time) THEN Unwrap(last_stop_time)
                              ELSE vad'.last_voice_time,
                              Unwrap(start_time)))]_vars

\* the timer closed a segment with the last voiced instant as its stop time,
\* silence having lasted longer than the timer asks
C6_Witness ==
    /\ op = "ingest_audio"
    /\ Finals # {}
    /\ out[1].stop_time = Some(Secs(2))
    /\ vad.last_voice_time = Secs(2)
    /\ f64_gt(f64_sub(vad.current_time, vad.last_voice_time), finalize_after_s)

-----------------------------------------------------------------------------
(* C7.  force_finalize on an open segment emits a final update whose         *)
(* stop_time is last_stop_time if set; else the VAD's last_voice_time if     *)
(* > 0; else the VAD's current_time if > 0; else absent -- a present value   *)
(* being clamped up to start_time.                                           *)

C7_ForceFinalizeFallback ==
    [][(op' = "force_finalize" /\ IsSome(start_time)) =>
         /\ Len(out') = 1
         /\ out'[1].is_final
         /\ out'[1].stop_time =
               IF IsSome(last_stop_time)
               THEN Some(Max(Unwrap(last_stop_time), Unwrap(start_time)))
               ELSE IF Positive(vad.last_voice_time)
               THEN Some(Max(vad.last_voice_time, Unwrap(start_time)))
               ELSE IF Positive(vad.current_time)
               THEN Some(Max(vad.current_time, Unwrap(start_time)))
               ELSE None]_vars

\* the clock was the fallback: no voiced frame yet, and 6 s is no end-of-word
\* timestamp
C7_Witness ==
    /\ op = "force_finalize"
    /\ Finals # {}
    /\ out[1].stop_time = Some(Secs(6))
    /\ vad.current_time = Secs(6)
    /\ vad.last_voice_time = f64_zero

-----------------------------------------------------------------------------
(* C8.  After the VAD has entered speech, a speech-ended event is produced   *)
(* exactly at the frame where the run of below-threshold frames since the    *)
(* last voiced frame first reaches min_silence_duration (a voiced frame      *)
(* restarts the run); one event per such transition, its end_time the end    *)
(* of the last voiced frame, none until a voiced frame is processed again.   *)
(* A run of r frames lasts r * frame_length / sample_rate seconds, and the   *)
(* k-th frame since the last reset ends k * frame_length / sample_rate       *)
(* seconds after it.                                                         *)

C8_SpeechEndedOncePerTransition ==
    vad_events = expected_events

-----------------------------------------------------------------------------
(* C9.  current_time advances by frame_duration for every complete frame     *)
(* processed, voiced or silent, so it equals the number of frames processed  *)
(* since the last reset times frame_duration; no call but reset lowers it,   *)
(* and reset sets it to 0.                                                   *)

C9_ClockCountsFrames ==
    [][/\ vad'.current_time =
             IF vad_disabled(vad'.cfg) THEN f64_zero
             ELSE frames_time(frames_done', vad'.cfg)
       /\ op' # "reset" => f64_ge(vad'.current_time, vad.current_time)
       /\ op' = "reset" => vad'.current_time = f64_zero]_vars

-----------------------------------------------------------------------------
(* C10.  process with empty input, or with a disabled configuration          *)
(* (sample_rate = 0 or frame_length = 0) and any input, returns no events    *)
(* and leaves every field of the VAD, the residual queue included,           *)
(* unchanged.                                                                *)

C10_DisabledOrEmptyIsNoOp ==
    \A pcm \in Batches :
        (pcm = <<>> \/ vad_disabled(vad.cfg))
            => process(vad, pcm) = [vad |-> vad, events |-> <<>>]

-----------------------------------------------------------------------------
(* C11.  start_time is set once per segment, by the first non-blank          *)
(* handle_word after Idle, to that call's timestamp; later handle_word and   *)
(* handle_end_word calls do not change it; only finalize (force_finalize,    *)
(* the timer of ingest_audio) and reset clear it.  Every partial and final   *)
(* update of the segment carries that start_time.                            *)

C11_StartTimeSetOnce ==
    [][/\ (IsSome(start_time) /\ op' \in {"handle_word", "handle_end_word"})
             => start_time' = start_time
       /\ (IsSome(start_time) /\ start_time' # start_time)
             => /\ start_time' = None
                /\ op' \in {"force_finalize", "ingest_audio", "reset"}
       /\ (~IsSome(start_time) /\ IsSome(start_time'))
             => /\ op' = "handle_word"
                /\ buffer' # <<>>
                /\ Len(out') = 1
       /\ ~IsSome(start_time) =>
             \A word \in Words, t \in StartTimes :
                handle_word(Self, word, t).self.start_time =
                    IF trim(word) = <<>> THEN None ELSE Some(t)
       /\ \A i \in Partials' : Some(out'[i].start_time) = start_time'
       /\ \A i \in Finals' : Some(out'[i].start_time) = start_time]_vars

\* the second word of a segment that started at 3 s has been folded in, and
\* its partial still starts at 3 s
C11_Witness ==
    /\ op = "handle_word"
    /\ buffer = <<"a", " ", "a">>
    /\ start_time = Some(Secs(3))
    /\ Partials # {}
    /\ out[1].start_time = Secs(3)

-----------------------------------------------------------------------------
(* C12.  A finalize on an open segment returns exactly one final update      *)
(* carrying the segment's text, whatever partial was emitted before it, and  *)
(* leaves the tracker Idle; while Idle, force_finalize, ingest_audio and     *)
(* handle_end_word return nothing, so a segment has at most one final and    *)
(* no partial after it.                                                      *)

C12_OneFinalPerSegment ==
    [][/\ (op' = "force_finalize" /\ IsSome(start_time)) =>
             /\ Len(out') = 1
             /\ out'[1].is_final
             /\ out'[1].text = buffer
             /\ IsSome(last_emitted)
             /\ Unwrap(last_emitted).text = out'[1].text
             /\ Unwrap(last_emitted).stop_time = last_stop_time
       /\ op' = "ingest_audio" => Len(out') <= 1
       /\ Finals' # {} =>
             /\ Finals' = {1}
             /\ Partials' = {}
             /\ IsSome(start_time)
             /\ SegmentCleared'
       /\ (~IsSome(start_time)
             /\ op' \in {"force_finalize", "ingest_audio", "handle_end_word"})
             => out' = <<>>
       /\ Partials' # {} => IsSome(start_time')]_vars

\* a segment whose partial already said "a," with stop time 4 s was closed:
\* the final says the same and the tracker is Idle
C12_Witness ==
    /\ op = "force_finalize"
    /\ Len(out) = 1
    /\ out[1].is_final
    /\ out[1].text = <<"a", ",">>
    /\ out[1].stop_time = Some(Secs(4))
    /\ start_time = None
    /\ buffer = <<>>

-----------------------------------------------------------------------------
(* C13.  handle_word appends the trimmed word to the buffer, with exactly    *)
(* one space before it if and only if the buffer is non-empty and both the   *)
(* buffer's last non-whitespace character and the word's first character     *)
(* are alphanumeric, and with nothing before it otherwise.  A blank word     *)
(* changes no tracker state and returns nothing.                             *)

\* the positions of s that hold a character other than whitespace
Inked(s) == {k \in 1..Len(s) : ~is_whitespace(s[k])}
Lowest(S) == CHOOSE k \in S : \A j \in S : k <= j
Highest(S) == CHOOSE k \in S : \A j \in S : k >= j

\* s without its leading and trailing whitespace
Stripped(s) ==
    IF Inked(s) = {} THEN <<>> ELSE SubSeq(s, Lowest(Inked(s)), Highest(Inked(s)))

\* the buffer the claim calls for after a non-blank word
Joined(buf, word) ==
    LET piece == Stripped(word)
        spaced == /\ buf # <<>>
                  /\ Inked(buf) # {}
                  /\ is_alphanumeric(buf[Highest(Inked(buf))])
                  /\ is_alphanumeric(piece[1])
    IN  buf \o (IF spaced THEN <<" ">> ELSE <<>>) \o piece

C13_WordJoining ==
    \A word \in Words, t \in StartTimes :
        LET r == handle_word(Self, word, t)
        IN  IF Stripped(word) = <<>>
            THEN r.self = Self /\ r.ret = None
            ELSE r.self.buffer = Joined(buffer, word)

\* a letter after a letter got its space, and the call reported the joined text
C13_Witness ==
    /\ op = "handle_word"
    /\ buffer = <<"a", " ", "a">>
    /\ Len(out) = 1
    /\ out[1].text = buffer

-----------------------------------------------------------------------------
(* C14.  reset, from any reachable state, leaves the tracker and its VAD in  *)
(* the state of a tracker newly constructed with the same configuration:     *)
(* empty buffer, no start_time, no last_stop_time, no last-emitted          *)
(* snapshot, empty residual queue, current_time = 0, in_speech = false,      *)
(* silence_accumulator = 0, last_voice_time = 0.  (The methods being         *)
(* functions of that state and their arguments, calls after reset return     *)
(* what they return on a new instance.)                                      *)

\* the configuration the tracker was constructed with
Configuration == [vad |-> vad.cfg, finalize_after_s |-> finalize_after_s]

C14_ResetIsNew ==
    [][op' = "reset" =>
         /\ Self' = new(Configuration)
         /\ buffer' = <<>> /\ start_time' = None /\ last_stop_time' = None
         /\ last_emitted' = None
         /\ vad'.buffer = <<>> /\ vad'.current_time = f64_zero /\ ~vad'.in_speech
         /\ vad'.silence_accumulator = f64_zero /\ vad'.last_voice_time = f64_zero
         /\ vad'.cfg = vad.cfg /\ finalize_after_s' = finalize_after_s]_vars

\* reset has run on a tracker whose VAD can process audio
C14_Witness ==
    /\ op = "reset"
    /\ Enabled
    /\ Self = new(Configuration)

-----------------------------------------------------------------------------
(* C15.  With a VAD that can process audio: once a segment is open, the VAD  *)
(* has seen a voiced frame since the last reset, and nothing but             *)
(* below-threshold audio keeps arriving through ingest_audio, some           *)
(* ingest_audio call returns the segment's final update and the tracker is   *)
(* Idle; with no voiced frame seen (last_voice_time = 0), such audio never   *)
(* finalizes the segment.                                                    *)

C15_SilenceFinalizes ==
    /\ (mode = "silence" /\ IsSome(start_time) /\ Positive(vad.last_voice_time))
          ~> (mode = "silence" /\ op = "ingest_audio" /\ Finals # {}
                /\ start_time = None)
    /\ [][(mode = "silence" /\ mode' = "silence" /\ vad'.last_voice_time = f64_zero)
            => (out' = <<>> /\ start_time' = start_time)]_vars

\* the timer closed a segment on audio delivered after the calls had stopped
C15_Witness ==
    /\ mode = "silence"
    /\ op = "ingest_audio"
    /\ Finals # {}
    /\ frames_done > MaxFrames

-----------------------------------------------------------------------------
(* C16.  handle_word and handle_end_word return partial updates only,        *)
(* force_finalize returns a final update only, and ingest_audio returns at   *)
(* most one update per call, always final, whatever frames the batch held.   *)

C16_OutputKinds ==
    /\ Len(out) <= 1
    /\ op \in {"handle_word", "handle_end_word"} => Finals = {}
    /\ op \in {"force_finalize", "ingest_audio"} => Partials = {}
    /\ op \in {"new", "reset"} => out = <<>>

\* one ingest_audio call whose batch completed a speech end inside it and that
\* returned the single final update
C16_Witness ==
    /\ op = "ingest_audio"
    /\ Len(out) = 1
    /\ out[1].is_final
    /\ vad_events # <<>>

-----------------------------------------------------------------------------
(* C17.  In every reachable state the buffer is non-empty exactly when       *)
(* start_time is set, a non-empty buffer holds a non-whitespace character,   *)
(* and a last-emitted snapshot exists only while start_time is set; so the   *)
(* timer's buffer test and finalize's start_time test agree.                 *)

C17_SegmentStateConsistent ==
    /\ (buffer # <<>>) <=> IsSome(start_time)
    /\ buffer # <<>> => trim(buffer) # <<>>
    /\ IsSome(last_emitted) => IsSome(start_time)
    /\ should_finalize_by_timer(Self) => finalize(Self, None).ret # <<>>

\* a blank word arrived on an open segment and left it as it was
C17_Witness ==
    /\ op = "handle_word"
    /\ out = <<>>
    /\ buffer = <<"a">>
    /\ IsSome(start_time)
    /\ IsSome(last_emitted)

-----------------------------------------------------------------------------
(* C18.  The silence timer is evaluated once per ingest_audio call, on the   *)
(* VAD state after the whole batch.  Take an open segment, a VAD that has a  *)
(* voiced frame behind it, and samples a ++ b where the frames a completes   *)
(* end in a below-threshold run lasting at least finalize_after_s and        *)
(* min_silence_duration, a ends on a frame boundary, the next frame is       *)
(* voiced and so is the last complete frame of a ++ b.  Delivered as one     *)
(* batch, the call returns nothing and the segment stays open; delivered as  *)
(* a then b, the first call returns the final update.  (The claim asks this  *)
(* of every VAD; one that has heard no voice would not do either.)  A run of *)
(* r frames lasts r * frame_length / sample_rate seconds.                    *)

\* the number of below-threshold frames at the end of cls
trailing_silence(cls) ==
    LET voiced == {j \in 1..Len(cls) : cls[j]}
    IN  IF voiced = {} THEN Len(cls) ELSE Len(cls) - Highest(voiced)

\* the ways to cut one batch in two
SplitPairs ==
    {pair \in Batches \X Batches :
        /\ pair[1] # <<>>
        /\ pair[2] # <<>>
        /\ Len(pair[1]) + Len(pair[2]) <= MaxBatch}

\* a ++ b is a batch as the claim describes it, cut at the end of its silent run
SplitPoint(a, b) ==
    IF ~(IsSome(start_time) /\ Enabled) THEN FALSE
    ELSE LET cls_a == delivered(vad, a)
             cls == delivered(vad, a \o b)
             run == trailing_silence(cls_a)
         IN  /\ (Len(vad.buffer) + Len(a)) % vad.cfg.frame_length = 0
             /\ run >= 1
             /\ frames_last(run, vad.cfg, finalize_after_s)
             /\ frames_last(run, vad.cfg, vad.cfg.min_silence_duration)
             /\ Len(cls) > Len(cls_a)
             /\ cls[Len(cls_a) + 1]
             /\ cls[Len(cls)]
             /\ Positive(process(vad, a).vad.last_voice_time)

\* the single batch returns nothing and leaves the segment open
OneBatchSilent(a, b) ==
    LET whole == ingest_audio(Self, a \o b)
    IN  /\ whole.ret = <<>>
        /\ whole.self.start_time = start_time
        /\ whole.self.buffer = buffer

\* the first of the two batches returns the final update and closes the segment
FirstBatchFinal(a) ==
    LET first == ingest_audio(Self, a)
    IN  /\ Len(first.ret) = 1
        /\ first.ret[1].is_final
        /\ first.self.start_time = None

C18_TimerOncePerBatch ==
    \A pair \in SplitPairs :
        SplitPoint(pair[1], pair[2])
            => OneBatchSilent(pair[1], pair[2]) /\ FirstBatchFinal(pair[1])

-----------------------------------------------------------------------------
(* C19.  With a VAD that can process audio, from every reachable VAD state   *)
(* and for all sample sequences a and b, process(a ++ b) gives the VAD state *)
(* and the events of process(a) then process(b), events concatenated; after *)
(* a process call fewer than frame_length samples are queued; and frames are *)
(* taken in arrival order: the queue left over is the end of what arrived,   *)
(* the clock has advanced by the whole frames before it, and last_voice_time *)
(* is the end of the last of those frames that is voiced.                    *)

\* the clock n frames after it showed t
RECURSIVE after_frames(_, _, _)
after_frames(t, n, cfg) ==
    IF n = 0 THEN t ELSE after_frames(f64_add(t, frame_duration(cfg)), n - 1, cfg)

\* process(pcm) from the current VAD state took the frames of the queued
\* samples followed by pcm, front first
InArrivalOrder(pcm) ==
    LET q == vad.buffer \o pcm
        n == Len(q) \div vad.cfg.frame_length
        cls == frame_classes(q, vad.cfg)
        voiced == {j \in 1..Len(cls) : cls[j]}
        after == process(vad, pcm).vad
    IN  /\ Len(after.buffer) < vad.cfg.frame_length
        /\ after.buffer = SubSeq(q, n * vad.cfg.frame_length + 1, Len(q))
        /\ after.current_time = after_frames(vad.current_time, n, vad.cfg)
        /\ after.last_voice_time =
              IF voiced = {} THEN vad.last_voice_time
              ELSE after_frames(vad.current_time, Highest(voiced), vad.cfg)

C19_BatchingIndependent ==
    Enabled =>
        /\ Len(vad.buffer) < vad.cfg.frame_length
        /\ \A a \in Batches : InArrivalOrder(a)
        /\ \A a, b \in Batches :
              LET first == process(vad, a)
                  second == process(first.vad, b)
                  whole == process(vad, a \o b)
              IN  /\ whole.vad = second.vad
                  /\ whole.events = first.events \o second.events

\* audio has arrived in more than one batch, frames have been completed, a
\* speech end was reported by the last call, and a sample is waiting for the
\* rest of its frame
C19_Witness ==
    /\ op = "ingest_audio"
    /\ vad.buffer # <<>>
    /\ frames_done >= 2
    /\ vad_events # <<>>

-----------------------------------------------------------------------------
(* C20.  From every reachable state, handle_word with a non-blank word       *)
(* returns a partial update whose text is the segment's text so far extended *)
(* by the word (so it differs from that text); and the text of every final   *)
(* update is the text of the last partial update emitted for its segment.    *)

\* s begins with p
StartsWith(s, p) == Len(p) <= Len(s) /\ SubSeq(s, 1, Len(p)) = p

\* every non-blank word is answered by a partial carrying the extended text
EveryWordReported ==
    \A word \in Words, t \in StartTimes :
        Stripped(word) # <<>> =>
            LET r == handle_word(Self, word, t)
            IN  /\ Len(r.ret) = 1
                /\ ~r.ret[1].is_final
                /\ r.ret[1].text = Joined(buffer, word)
                /\ StartsWith(r.ret[1].text, trim(buffer))
                /\ r.ret[1].text # trim(buffer)

C20_PartialsTrackText ==
    /\ []EveryWordReported
    /\ [][\A i \in Finals' :
             /\ IsSome(last_emitted)
             /\ ~Unwrap(last_emitted).is_final
             /\ out'[i].text = Unwrap(last_emitted).text]_vars

\* a segment of two words was closed with the text its last partial carried
C20_Witness ==
    /\ op = "force_finalize"
    /\ Finals # {}
    /\ out[1].text = <<"a", ",">>
    /\ start_time = None

====
